---- MODULE Spec2Model ----
(***************************************************************************)
(* A model of the LLM-judge evaluation core of jmlb/LLMEvaluator:          *)
(*   schemas/evaluation.py      EvaluationResponse and its parsing pipeline *)
(*   utils/llm_output_parser.py the module-level copy of that pipeline      *)
(*   schemas/scoring_rvc.py     ScoreSchemaRVC.get_score                    *)
(*   example_code.py            main: parse_raw_evaluation, then get_score  *)
(*                                                                         *)
(* Text is a sequence of characters, each character a one-character        *)
(* string; "bullet" stands for the character U+2022.  Python values are    *)
(* records [t |-> type, v |-> payload]:                                    *)
(*   "str"  v = the characters          "num"  v = the literal as written  *)
(*   "null" v = <<>>  (None)            "bool" v = the characters of       *)
(*   "list" v = the elements                       True / False            *)
(*   "dict" v = <<key, value>> pairs    "set"  v = the elements            *)
(*   "name" v = an identifier (only inside a parsed Python expression)     *)
(***************************************************************************)
EXTENDS Integers, Sequences, FiniteSets, TLC

(***************************************************************************)
(* Characters and str methods                                              *)
(***************************************************************************)
UpperChars == <<"A","B","C","D","E","F","G","H","I","J","K","L","M",
                "N","O","P","Q","R","S","T","U","V","W","X","Y","Z">>

LowerChars == <<"a","b","c","d","e","f","g","h","i","j","k","l","m",
                "n","o","p","q","r","s","t","u","v","w","x","y","z">>

Digits == {"0","1","2","3","4","5","6","7","8","9"}

UpperSet == {UpperChars[i] : i \in 1..26}

LowerSet == {LowerChars[i] : i \in 1..26}

Letters == UpperSet \cup LowerSet \cup {"_"}

\* str.isspace for the characters of the model
Whitespace == {" ", "\n", "\t"}

LowerMap == [c \in UpperSet |-> LowerChars[CHOOSE i \in 1..26 : UpperChars[i] = c]]

UpperMap == [c \in LowerSet |-> UpperChars[CHOOSE i \in 1..26 : LowerChars[i] = c]]

LowerChar(c) == IF c \in UpperSet THEN LowerMap[c] ELSE c

UpperChar(c) == IF c \in LowerSet THEN UpperMap[c] ELSE c

\* str.lower
Lower(s) == [i \in 1..Len(s) |-> LowerChar(s[i])]

\* str.capitalize
Capitalize(s) == [i \in 1..Len(s) |-> IF i = 1 THEN UpperChar(s[i]) ELSE LowerChar(s[i])]

\* s[i:i+len(t)] == t
MatchAt(s, t, i) == /\ i >= 1
                    /\ i + Len(t) - 1 <= Len(s)
                    /\ \A k \in 1..Len(t) : s[i + k - 1] = t[k]

\* t in s
Contains(s, t) == \E i \in 1..(Len(s) - Len(t) + 1) : MatchAt(s, t, i)

\* s.find(t, from), 1-based; 0 when t does not occur at or after from
Find(s, t, from) ==
    LET hits == {i \in from..(Len(s) - Len(t) + 1) : MatchAt(s, t, i)}
    IN  IF hits = {} THEN 0 ELSE CHOOSE i \in hits : \A j \in hits : i <= j

\* str.startswith
StartsWith(s, t) == MatchAt(s, t, 1)

RECURSIVE RunEnd(_, _, _)
\* the first index at or after i whose character is outside S; Len(s)+1 if none
RunEnd(s, i, S) == IF i > Len(s) \/ s[i] \notin S THEN i ELSE RunEnd(s, i + 1, S)

RECURSIVE RunStart(_, _, _)
\* the last index at or before i whose character is outside S; 0 if none
RunStart(s, i, S) == IF i < 1 \/ s[i] \notin S THEN i ELSE RunStart(s, i - 1, S)

\* str.strip
Strip(s) == SubSeq(s, RunEnd(s, 1, Whitespace), RunStart(s, Len(s), Whitespace))

\* str.replace(c, "") for a single character c
RemoveChar(s, c) == SelectSeq(s, LAMBDA x : x # c)

RECURSIVE FlattenRange(_, _, _)
\* "".join(parts[lo..hi]), by halves
FlattenRange(parts, lo, hi) ==
    IF lo > hi THEN <<>>
    ELSE IF lo = hi THEN parts[lo]
    ELSE LET mid == (lo + hi) \div 2
         IN  FlattenRange(parts, lo, mid) \o FlattenRange(parts, mid + 1, hi)

\* "".join(parts)
Flatten(parts) == FlattenRange(parts, 1, Len(parts))

\* the characters of s at the indices outside the set dropped, in order
KeepIndices(s, dropped) ==
    LET tagged == [i \in 1..Len(s) |-> <<i \notin dropped, s[i]>>]
        kept == SelectSeq(tagged, LAMBDA x : x[1])
    IN  [i \in 1..Len(kept) |-> kept[i][2]]

(***************************************************************************)
(* Python values                                                           *)
(***************************************************************************)
None == [t |-> "null", v |-> <<>>]

Str(chars) == [t |-> "str", v |-> chars]

IsStr(x) == x.t = "str"

\* dict lookup: the index of key k among the pairs, 0 when absent
KeyIndex(pairs, k) ==
    LET at == {i \in 1..Len(pairs) : pairs[i][1] = k}
    IN  IF at = {} THEN 0 ELSE CHOOSE i \in at : TRUE

\* d[k] = v on the pairs of a dict (an existing key keeps its position)
DictSet(pairs, k, v) ==
    LET i == KeyIndex(pairs, k)
    IN  IF i = 0 THEN Append(pairs, <<k, v>>) ELSE [pairs EXCEPT ![i] = <<k, v>>]

\* d.get(k, default)
DictGet(pairs, k, default) ==
    LET i == KeyIndex(pairs, k) IN IF i = 0 THEN default ELSE pairs[i][2]

\* d.keys() as a set
Keys(d) == {d.v[i][1] : i \in 1..Len(d.v)}

\* bool(x)
Truthy(x) ==
    CASE x.t = "null" -> FALSE
      [] x.t = "bool" -> x.v = <<"T","r","u","e">>
      [] x.t = "num"  -> LET e == {i \in 1..Len(x.v) : x.v[i] \in {"e", "E"}}
                             m == IF e = {} THEN Len(x.v)
                                  ELSE (CHOOSE i \in e : TRUE) - 1
                         IN  \E i \in 1..m : x.v[i] \in (Digits \ {"0"})
      [] OTHER        -> x.v # <<>>

\* hash(x) is defined
Hashable(x) == x.t \notin {"list", "dict", "set"}

RECURSIVE Repr(_)
RECURSIVE ReprItems(_, _)
\* repr(x); str(x) is repr(x) except for a str.  A num prints as it was written.
Repr(x) ==
    CASE x.t = "str"  ->
             LET q == IF Contains(x.v, <<"'">>) /\ ~Contains(x.v, <<"\"">>)
                      THEN "\"" ELSE "'"
                 esc == [i \in 1..Len(x.v) |->
                            IF x.v[i] = "\\" THEN <<"\\", "\\">>
                            ELSE IF x.v[i] = q THEN <<"\\", q>>
                            ELSE IF x.v[i] = "\n" THEN <<"\\", "n">>
                            ELSE IF x.v[i] = "\t" THEN <<"\\", "t">>
                            ELSE <<x.v[i]>>]
             IN  <<q>> \o Flatten(esc) \o <<q>>
      [] x.t = "null" -> <<"N","o","n","e">>
      [] x.t = "list" -> <<"[">> \o ReprItems(x.v, 1) \o <<"]">>
      [] x.t = "set"  -> <<"{">> \o ReprItems(x.v, 1) \o <<"}">>
      [] x.t = "dict" ->
             <<"{">> \o
             Flatten([i \in 1..Len(x.v) |->
                        (IF i = 1 THEN <<>> ELSE <<",", " ">>) \o
                        Repr(x.v[i][1]) \o <<":", " ">> \o Repr(x.v[i][2])]) \o
             <<"}">>
      [] OTHER        -> x.v

ReprItems(items, i) ==
    IF i > Len(items) THEN <<>>
    ELSE (IF i = 1 THEN <<>> ELSE <<",", " ">>) \o Repr(items[i]) \o ReprItems(items, i + 1)

\* str(x)
PyStr(x) == IF x.t = "str" THEN x.v ELSE Repr(x)

(***************************************************************************)
(* The two library parsers: json.loads and the parser of ast.literal_eval. *)
(* One recursive descent over the characters, mode "json" or "py".         *)
(* Grammar covered: objects / dict and set displays, lists, strings with   *)
(* backslash escapes, integers and decimals with an exponent, the literal  *)
(* words, and (py) bare identifiers.  A result is [st, v, n]: st = "ok"    *)
(* with the value v and the index n after it, or st = "err".               *)
(***************************************************************************)
Err == [st |-> "err", v |-> None, n |-> 0]

Ok(val, next) == [st |-> "ok", v |-> val, n |-> next]

SkipWs(s, i) == RunEnd(s, i, Whitespace)

At(s, i) == IF i >= 1 /\ i <= Len(s) THEN s[i] ELSE "EOF"

RECURSIVE BackslashesBefore(_, _, _)
\* the number of backslashes that end just before index j, counted from index i
BackslashesBefore(s, i, j) ==
    IF j - 1 < i \/ s[j - 1] # "\\" THEN 0 ELSE 1 + BackslashesBefore(s, i, j - 1)

RECURSIVE ParseString(_, _, _, _, _)
\* the body of a string literal opened with quote q, from index i; acc is the
\* value of the adjacent literals before it (py)
ParseString(s, i, q, m, acc) ==
    LET ends == {j \in i..Len(s) : s[j] = q /\ BackslashesBefore(s, i, j) % 2 = 0}
        close == CHOOSE j \in ends : \A k \in ends : j <= k
        \* a backslash that starts an escape, and the character it escapes
        starts(k) == s[k] = "\\" /\ BackslashesBefore(s, i, k) % 2 = 0
        escaped(k) == k > i /\ s[k - 1] = "\\" /\ starts(k - 1)
        known == IF m = "json" THEN {"\"", "\\", "/", "n", "t"}
                 ELSE {"\"", "\\", "'", "n", "t"}
        piece(k) == IF starts(k) THEN <<>>
                    ELSE IF ~escaped(k) THEN <<s[k]>>
                    ELSE IF s[k] = "n" THEN <<"\n">>
                    ELSE IF s[k] = "t" THEN <<"\t">>
                    ELSE IF s[k] \in known THEN <<s[k]>>
                    ELSE <<"\\", s[k]>>
        body == IF \E k \in i..(close - 1) : s[k] = "\\"
                THEN Flatten([k \in 1..(close - i) |-> piece(i + k - 1)])
                ELSE SubSeq(s, i, close - 1)
        next == SkipWs(s, close + 1)
    IN  IF ends = {} THEN Err
        ELSE IF \E k \in i..(close - 1) : s[k] = "\n" \/ (m = "json" /\ s[k] = "\t") THEN Err
        ELSE IF m = "json" /\ \E k \in i..(close - 1) : escaped(k) /\ s[k] \notin known THEN Err
        \* py: adjacent string literals are one string
        ELSE IF m = "py" /\ At(s, next) \in {"\"", "'"}
             THEN ParseString(s, next + 1, At(s, next), m, acc \o body)
        ELSE Ok(Str(acc \o body), close + 1)

\* a number literal starting at index i (a digit or "-")
ParseNumber(s, i, m) ==
    LET d0   == IF s[i] # "-" THEN i
                ELSE IF m = "py" THEN SkipWs(s, i + 1) ELSE i + 1
        d1   == RunEnd(s, d0, Digits)
        zero == \A k \in d0..(d1 - 1) : s[k] = "0"
        f1   == IF At(s, d1) = "." THEN RunEnd(s, d1 + 1, Digits) ELSE d1
        frac == f1 > d1
        e0   == IF At(s, f1) \in {"e", "E"}
                THEN (IF At(s, f1 + 1) \in {"+", "-"} THEN f1 + 2 ELSE f1 + 1)
                ELSE f1
        e1   == IF e0 > f1 THEN RunEnd(s, e0, Digits) ELSE f1
        end  == IF e0 > f1 /\ e1 > e0 THEN e1 ELSE f1
    IN  IF d1 = d0 THEN Err
        ELSE IF s[d0] = "0" /\ d1 - d0 > 1 /\ (m = "json" \/ (~zero /\ ~frac /\ end = f1)) THEN Err
        ELSE IF frac /\ f1 = d1 + 1 /\ m = "json" THEN Err
        ELSE IF m = "py" /\ At(s, end) \in (Letters \cup Digits) THEN Err
        ELSE Ok([t |-> "num", v |-> (IF s[i] = "-" THEN <<"-">> ELSE <<>>) \o
                                    SubSeq(s, d0, end - 1)], end)

\* a bare word starting at index i
ParseWord(s, i, m) ==
    LET e == RunEnd(s, i, Letters \cup Digits)
        w == SubSeq(s, i, e - 1)
        T == <<"T","r","u","e">>
        F == <<"F","a","l","s","e">>
    IN  IF m = "json" THEN
            CASE w = <<"t","r","u","e">>     -> Ok([t |-> "bool", v |-> T], e)
              [] w = <<"f","a","l","s","e">> -> Ok([t |-> "bool", v |-> F], e)
              [] w = <<"n","u","l","l">>     -> Ok(None, e)
              [] MatchAt(s, <<"N","a","N">>, i) -> Ok([t |-> "num", v |-> <<"n","a","n">>], i + 3)
              [] MatchAt(s, <<"I","n","f","i","n","i","t","y">>, i) ->
                     Ok([t |-> "num", v |-> <<"i","n","f">>], i + 8)
              [] OTHER -> Err
        ELSE
            CASE w = T -> Ok([t |-> "bool", v |-> T], e)
              [] w = F -> Ok([t |-> "bool", v |-> F], e)
              [] w = <<"N","o","n","e">> -> Ok(None, e)
              [] OTHER -> Ok([t |-> "name", v |-> w], e)

RECURSIVE ParseValue(_, _, _)
RECURSIVE ParseItems(_, _, _, _, _)
RECURSIVE ParsePairs(_, _, _, _)

\* one value, after optional whitespace
ParseValue(s, i, m) ==
    LET j == SkipWs(s, i)
        c == At(s, j)
    IN  CASE c = "{" ->
                 LET k == SkipWs(s, j + 1)
                 IN  IF At(s, k) = "}" THEN Ok([t |-> "dict", v |-> <<>>], k + 1)
                     ELSE LET first == ParseValue(s, k, m)
                              a     == SkipWs(s, first.n)
                          IN  IF first.st = "err" THEN Err
                              ELSE IF At(s, a) = ":" THEN ParsePairs(s, k, m, <<>>)
                              ELSE IF m = "py" THEN ParseItems(s, k, m, <<>>, "}")
                              ELSE Err
          [] c = "[" ->
                 IF At(s, SkipWs(s, j + 1)) = "]"
                 THEN Ok([t |-> "list", v |-> <<>>], SkipWs(s, j + 1) + 1)
                 ELSE ParseItems(s, j + 1, m, <<>>, "]")
          [] c = "\"" -> ParseString(s, j + 1, "\"", m, <<>>)
          [] c = "'" /\ m = "py" -> ParseString(s, j + 1, "'", m, <<>>)
          [] c \in Digits \cup {"-"} -> ParseNumber(s, j, m)
          [] c \in Letters -> ParseWord(s, j, m)
          [] OTHER -> Err

\* the elements of a list ("]") or set display ("}"), from index i: one
\* element, then "," and more, or the closing bracket (py allows a trailing ",")
ParseItems(s, i, m, acc, close) ==
    LET x == ParseValue(s, i, m)
        a == SkipWs(s, x.n)
        b == SkipWs(s, a + 1)
        all == Append(acc, x.v)
        val == [t |-> IF close = "]" THEN "list" ELSE "set", v |-> all]
    IN  IF x.st = "err" THEN Err
        ELSE IF At(s, a) = close THEN Ok(val, a + 1)
        ELSE IF At(s, a) # "," THEN Err
        ELSE IF At(s, b) = close THEN (IF m = "py" THEN Ok(val, b + 1) ELSE Err)
        ELSE ParseItems(s, a + 1, m, all, close)

\* the key: value pairs of an object or dict display, from index i.  The pairs
\* are kept as written; duplicate keys are resolved when the dict is built.
ParsePairs(s, i, m, acc) ==
    LET k == ParseValue(s, i, m)
        a == SkipWs(s, k.n)
        x == ParseValue(s, a + 1, m)
        c == SkipWs(s, x.n)
        d == SkipWs(s, c + 1)
        all == Append(acc, <<k.v, x.v>>)
        val == [t |-> "dict", v |-> all]
    IN  IF k.st = "err" \/ At(s, a) # ":" THEN Err
        ELSE IF m = "json" /\ k.v.t # "str" THEN Err
        ELSE IF x.st = "err" THEN Err
        ELSE IF At(s, c) = "}" THEN Ok(val, c + 1)
        ELSE IF At(s, c) # "," THEN Err
        ELSE IF At(s, d) = "}" THEN (IF m = "py" THEN Ok(val, d + 1) ELSE Err)
        ELSE ParsePairs(s, c + 1, m, all)

RECURSIVE Build(_)
RECURSIVE BuildItems(_, _, _, _)
RECURSIVE BuildPairs(_, _, _)
\* The value of a parsed expression, in evaluation order: [st, v] with st =
\* "ok", "ValueError" (a node that is no literal: json.loads never builds one)
\* or "TypeError" (an unhashable dict key or set element).
Build(x) ==
    CASE x.t = "name" -> [st |-> "ValueError", v |-> None]
      [] x.t = "list" -> BuildItems(x.v, 1, <<>>, "list")
      [] x.t = "set"  -> BuildItems(x.v, 1, <<>>, "set")
      [] x.t = "dict" -> BuildPairs(x.v, 1, <<>>)
      [] OTHER        -> [st |-> "ok", v |-> x]

BuildItems(items, i, acc, kind) ==
    IF i > Len(items) THEN [st |-> "ok", v |-> [t |-> kind, v |-> acc]]
    ELSE LET e == Build(items[i])
         IN  IF e.st # "ok" THEN e
             ELSE IF kind = "set" /\ ~Hashable(e.v) THEN [st |-> "TypeError", v |-> None]
             ELSE IF kind = "set" /\ \E j \in 1..Len(acc) : acc[j] = e.v
                  THEN BuildItems(items, i + 1, acc, kind)
             ELSE BuildItems(items, i + 1, Append(acc, e.v), kind)

BuildPairs(pairs, i, acc) ==
    IF i > Len(pairs) THEN [st |-> "ok", v |-> [t |-> "dict", v |-> acc]]
    ELSE LET k == Build(pairs[i][1])
             x == Build(pairs[i][2])
         IN  IF k.st # "ok" THEN k
             ELSE IF x.st # "ok" THEN x
             ELSE IF ~Hashable(k.v) THEN [st |-> "TypeError", v |-> None]
             ELSE BuildPairs(pairs, i + 1, DictSet(acc, k.v, x.v))

\* json.loads(s): [st, v], st = "ok" or "JSONDecodeError"
json_loads(s) ==
    LET r == ParseValue(s, 1, "json")
    IN  IF r.st = "ok" /\ SkipWs(s, r.n) > Len(s)
        THEN [st |-> "ok", v |-> Build(r.v).v]
        ELSE [st |-> "JSONDecodeError", v |-> None]

\* ast.literal_eval(s): [st, v], st = "ok", "SyntaxError", "ValueError" or "TypeError"
literal_eval(s) ==
    LET t == RunEnd(s, 1, {" ", "\t"})
        r == ParseValue(s, t, "py")
    IN  IF t <= Len(s) /\ s[t] # "\n" /\ r.st = "ok" /\ SkipWs(s, r.n) > Len(s)
        THEN Build(r.v)
        ELSE [st |-> "SyntaxError", v |-> None]

(***************************************************************************)
(* Strings of the program                                                  *)
(***************************************************************************)
S_reasoning == <<"r","e","a","s","o","n","i","n","g">>

S_verdict == <<"v","e","r","d","i","c","t">>

S_confidence == <<"c","o","n","f","i","d","e","n","c","e">>

S_Pass == <<"P","a","s","s">>

S_Fail == <<"F","a","i","l">>

S_High == <<"H","i","g","h">>

S_Medium == <<"M","e","d","i","u","m">>

S_Low == <<"L","o","w">>

\* required_keys when the caller passes none
DefaultRequiredKeys == {Str(S_reasoning), Str(S_verdict), Str(S_confidence)}

\* A call of a parsing method ends by returning a value or by raising.
Return(val) == [st |-> "ret", v |-> val]

Raise(exc) == [st |-> "raise", v |-> Str(exc)]

X_AttributeError == <<"A","t","t","r","i","b","u","t","e","E","r","r","o","r">>

X_TypeError == <<"T","y","p","e","E","r","r","o","r">>

X_ValueError == <<"V","a","l","u","e","E","r","r","o","r">>

X_KeyError == <<"K","e","y","E","r","r","o","r">>

(***************************************************************************)
(* EvaluationResponse: the three built-in parsing methods                  *)
(***************************************************************************)
\* EvaluationResponse._parse_json
_parse_json(raw_result) ==
    LET r == json_loads(raw_result)
    IN  IF r.st = "ok" THEN Return(r.v) ELSE Return(None)

\* re.search(r'\{[^{}]*\}', s): [a, b], the first "{" whose next brace is a
\* "}", and that "}"; a = 0 when there is no match
SearchFlatBraces(s) ==
    LET braces == {i \in 1..Len(s) : s[i] \in {"{", "}"}}
        next(i) == LET after == {j \in braces : j > i}
                   IN  IF after = {} THEN 0 ELSE CHOOSE j \in after : \A k \in after : j <= k
        opens == {i \in braces : s[i] = "{" /\ At(s, next(i)) = "}"}
        a == CHOOSE i \in opens : \A j \in opens : i <= j
    IN  IF opens = {} THEN [a |-> 0, b |-> 0] ELSE [a |-> a, b |-> next(a)]

RECURSIVE LowerKeys(_, _, _)
\* {key.lower(): value for key, value in result_dict.items()}: the pairs, or
\* "AttributeError" at the first key that is no str
LowerKeys(pairs, i, acc) ==
    IF i > Len(pairs) THEN [st |-> "ok", v |-> acc]
    ELSE IF ~IsStr(pairs[i][1]) THEN [st |-> "AttributeError", v |-> <<>>]
    ELSE LowerKeys(pairs, i + 1, DictSet(acc, Str(Lower(pairs[i][1].v)), pairs[i][2]))

\* for t in tokens: if t.lower() in text.lower(): return t -- else None
FirstToken(tokens, text) ==
    LET low == Lower(text)
        hit == {i \in 1..Len(tokens) : Contains(low, Lower(tokens[i]))}
    IN  IF hit = {} THEN None
        ELSE Str(tokens[CHOOSE i \in hit : \A j \in hit : i <= j])

VerdictTokens == <<S_Pass, S_Fail>>

ConfidenceTokens == <<S_Low, S_Medium, S_High>>

ThreeKeys(r, v, c) ==
    [t |-> "dict", v |-> << <<Str(S_reasoning), r>>, <<Str(S_verdict), v>>,
                            <<Str(S_confidence), c>> >>]

\* _extract_from_json_blob after the keys were lower-cased
BlobExtracted(normalized_dict) ==
    IF normalized_dict.st # "ok" THEN Raise(X_AttributeError)
    ELSE Return(ThreeKeys(
             DictGet(normalized_dict.v, Str(S_reasoning), None),
             FirstToken(VerdictTokens,
                        PyStr(DictGet(normalized_dict.v, Str(S_verdict), Str(<<>>)))),
             FirstToken(ConfidenceTokens,
                        PyStr(DictGet(normalized_dict.v, Str(S_confidence), Str(<<>>))))))

\* _extract_from_json_blob after ast.literal_eval(dict_str)
BlobEvaluated(result_dict) ==
    IF result_dict.st \in {"SyntaxError", "ValueError"} THEN Return(None)
    ELSE IF result_dict.st = "TypeError" THEN Raise(X_TypeError)
    ELSE IF result_dict.v.t # "dict" THEN Raise(X_AttributeError)
    ELSE BlobExtracted(LowerKeys(result_dict.v.v, 1, <<>>))

\* _extract_from_json_blob after re.search
BlobMatched(input_string, match) ==
    IF match.a = 0 THEN Return(None)
    ELSE BlobEvaluated(literal_eval(SubSeq(input_string, match.a, match.b)))

\* EvaluationResponse._extract_from_json_blob
_extract_from_json_blob(input_string) ==
    BlobMatched(input_string, SearchFlatBraces(input_string))

\* the characters re.sub removes at line starts in clean_text: [\d.\-...*],
\* where evaluation.py spells the bullet as three other characters
BulletChars_evaluation == Digits \cup {".", "-", "*", "a_circumflex", "euro", "cent"}

\* the same class in utils/llm_output_parser.py
BulletChars_utils == Digits \cup {".", "-", "*", "bullet"}

\* re.sub(r'^[bullets]+\s*', '', text, flags=re.MULTILINE): a match starts at
\* each line start that holds a bullet character and runs over the bullet
\* characters and the whitespace after them
StripLineStarts(text, bullets) ==
    LET starts == {i \in 1..Len(text) :
                      (i = 1 \/ text[i - 1] = "\n") /\ text[i] \in bullets}
        end(i) == RunEnd(text, RunEnd(text, i, bullets), Whitespace)
        spans == {<<i, end(i)>> : i \in starts}
    IN  IF starts = {} THEN text
        ELSE KeepIndices(text, {k \in 1..Len(text) : \E sp \in spans : sp[1] <= k /\ k < sp[2]})

\* clean_text
clean_text(text, bullets) ==
    RemoveChar(Strip(StripLineStarts(text, bullets)), "\"")

\* extract_section(label + '(.*?)' + until, text); until = <<>> is '(.*)'.
\* [found, v]: the stripped group
extract_section(label, until, input_text) ==
    LET a == Find(input_text, label, 1)
        from == a + Len(label)
        b == IF until = <<>> THEN Len(input_text) + 1 ELSE Find(input_text, until, from)
    IN  IF a = 0 \/ b = 0 THEN [found |-> FALSE, v |-> <<>>]
        ELSE [found |-> TRUE, v |-> Strip(SubSeq(input_text, from, b - 1))]

Colon(label) == label \o <<":">>

\* for t in order: if t in text: return t.capitalize() -- else nothing; order
\* is the order in which the set of tokens is iterated
FirstInSet(order, text) ==
    LET hit == {i \in 1..Len(order) : Contains(text, order[i])}
    IN  IF hit = {} THEN <<>>
        ELSE <<Capitalize(order[CHOOSE i \in hit : \A j \in hit : i <= j])>>

\* the reasoning section cleaned: clean_text, then one leading ":" dropped
CleanReasoning(cleaned) == IF StartsWith(cleaned, <<":">>) THEN Strip(Tail(cleaned)) ELSE cleaned

\* the result dict from the three sections found
SectionsDict(reasoning, verdict, confidence, bullets, h) ==
    [t |-> "dict",
     v |-> (IF reasoning.found /\ reasoning.v # <<>>
            THEN << <<Str(S_reasoning), Str(CleanReasoning(clean_text(reasoning.v, bullets)))>> >>
            ELSE <<>>) \o
           (IF verdict.found /\ verdict.v # <<>>
            THEN [i \in 1..Len(FirstInSet(h.v, clean_text(verdict.v, bullets))) |->
                     <<Str(S_verdict), Str(FirstInSet(h.v, clean_text(verdict.v, bullets))[i])>>]
            ELSE <<>>) \o
           (IF confidence.found /\ confidence.v # <<>>
            THEN [i \in 1..Len(FirstInSet(h.c, clean_text(confidence.v, bullets))) |->
                     <<Str(S_confidence),
                       Str(FirstInSet(h.c, clean_text(confidence.v, bullets))[i])>>]
            ELSE <<>>)]

\* the three sections of the lower-cased text
SectionsOf(input_string_lower, bullets, h) ==
    SectionsDict(
        extract_section(Colon(S_reasoning), Colon(S_verdict), input_string_lower),
        extract_section(Colon(S_verdict), Colon(S_confidence), input_string_lower),
        extract_section(Colon(S_confidence), <<>>, input_string_lower),
        bullets, h)

\* the body shared by both copies of the labeled-section strategy: the result
\* dict, under the iteration orders h.v of {'pass', 'fail'} and h.c of
\* {'low', 'medium', 'high'}
SectionsResult(input_string, bullets, h) == SectionsOf(Lower(input_string), bullets, h)

\* the result returned however many fields were found
ThreeOrNone_partial(result) == Return(result)

\* return result if len(result) == 3 else None
ThreeOrNone(result) == IF Len(result.v) = 3 THEN Return(result) ELSE Return(None)

\* EvaluationResponse._extract_from_unstructured_text
_extract_from_unstructured_text(input_string, h) ==
    IF input_string = <<>> THEN Return(None)
    ELSE ThreeOrNone(SectionsResult(input_string, BulletChars_evaluation, h))

(***************************************************************************)
(* utils/llm_output_parser.py: the module-level copies                     *)
(***************************************************************************)
\* v.capitalize() on the token found, None staying None
CapitalizeStr(x) == IF IsStr(x) THEN Str(Capitalize(x.v)) ELSE x

\* extract_evaluation_from_json_blob after the keys were lower-cased
UtilsBlobFields(reasoning, verdict, confidence) ==
    IF ~IsStr(verdict) THEN Raise(X_AttributeError)
    ELSE IF ~IsStr(confidence) THEN Raise(X_AttributeError)
    ELSE Return(ThreeKeys(reasoning,
                          CapitalizeStr(FirstToken(VerdictTokens, verdict.v)),
                          CapitalizeStr(FirstToken(ConfidenceTokens, confidence.v))))

UtilsBlobExtracted(normalized_dict) ==
    IF normalized_dict.st # "ok" THEN Raise(X_AttributeError)
    ELSE UtilsBlobFields(DictGet(normalized_dict.v, Str(S_reasoning), None),
                         DictGet(normalized_dict.v, Str(S_verdict), None),
                         DictGet(normalized_dict.v, Str(S_confidence), None))

\* extract_evaluation_from_json_blob after ast.literal_eval(dict_str)
UtilsBlobEvaluated(result_dict) ==
    IF result_dict.st \in {"SyntaxError", "ValueError"} THEN Return([t |-> "dict", v |-> <<>>])
    ELSE IF result_dict.st = "TypeError" THEN Raise(X_TypeError)
    ELSE IF result_dict.v.t # "dict" THEN Raise(X_AttributeError)
    ELSE UtilsBlobExtracted(LowerKeys(result_dict.v.v, 1, <<>>))

\* extract_evaluation_from_json_blob after re.search
UtilsBlobMatched(input_string, match) ==
    IF match.a = 0 THEN Return([t |-> "dict", v |-> <<>>])
    ELSE UtilsBlobEvaluated(literal_eval(SubSeq(input_string, match.a, match.b)))

\* extract_evaluation_from_json_blob
extract_evaluation_from_json_blob(input_string) ==
    UtilsBlobMatched(input_string, SearchFlatBraces(input_string))

\* extract_evaluation_from_unstructured_text
extract_evaluation_from_unstructured_text(input_string, h) ==
    IF input_string = <<>> THEN Raise(X_ValueError)
    ELSE Return(SectionsResult(input_string, BulletChars_utils, h))

(***************************************************************************)
(* The two pipelines                                                       *)
(***************************************************************************)
BuiltinMethods == <<"_parse_json", "_extract_from_json_blob", "_extract_from_unstructured_text">>

\* What a caller may register: callables from the raw text to a result.
\*   "reg_a", "reg_b"  return a fixed complete dict whatever the text
\*   "reg_none"        returns None
\*   "reg_raise"       raises
RegisteredKinds == {"reg_a", "reg_b", "reg_none", "reg_raise"}

RegisteredResult(method) ==
    CASE method = "reg_a" -> Return(ThreeKeys(Str(<<"a">>), Str(S_Pass), Str(S_Low)))
      [] method = "reg_b" -> Return(ThreeKeys(Str(<<"b">>), Str(S_Fail), Str(S_High)))
      [] method = "reg_none" -> Return(None)
      [] OTHER -> Raise(X_ValueError)

\* method(raw_result) for a method of the list; h is the process's iteration
\* order of the two token sets
CallMethod(method, raw_result, h) ==
    CASE method = "_parse_json" -> _parse_json(raw_result)
      [] method = "_extract_from_json_blob" -> _extract_from_json_blob(raw_result)
      [] method = "_extract_from_unstructured_text" ->
             _extract_from_unstructured_text(raw_result, h)
      [] OTHER -> RegisteredResult(method)

\* The body of the loop of EvaluationResponse.parse_raw_evaluation, given
\* what method(raw_result) did: [returns, v, raised]: whether the loop returns
\* parsed_result v here, and whether the iteration ended in the except clause
LoopBody(parsed_result, required_keys_set) ==
    IF parsed_result.st = "raise"
    THEN [returns |-> FALSE, v |-> None, raised |-> TRUE]
    ELSE IF ~Truthy(parsed_result.v)
    THEN [returns |-> FALSE, v |-> None, raised |-> FALSE]
    ELSE IF parsed_result.v.t # "dict"
    THEN [returns |-> FALSE, v |-> None, raised |-> TRUE]
    ELSE IF required_keys_set \subseteq Keys(parsed_result.v)
    THEN [returns |-> TRUE, v |-> parsed_result.v, raised |-> FALSE]
    ELSE [returns |-> FALSE, v |-> None, raised |-> FALSE]

\* one iteration of the loop for one method
TryMethod(method, raw_result, required_keys_set, h) ==
    LoopBody(CallMethod(method, raw_result, h), required_keys_set)

\* the registered methods placed before the built-ins
ParsingMethods_registered_first(registered) == registered \o BuiltinMethods

\* parsing_methods = [the three built-ins] + cls._parsing_methods
ParsingMethods(registered) == BuiltinMethods \o registered

RECURSIVE RunMethods(_, _, _, _, _)
\* the loop of EvaluationResponse.parse_raw_evaluation from method i on: the
\* value returned (None when all parsers fail)
RunMethods(parsing_methods, i, raw_result, required_keys_set, h) ==
    IF i > Len(parsing_methods) THEN None
    ELSE LET t == TryMethod(parsing_methods[i], raw_result, required_keys_set, h)
         IN  IF t.returns THEN t.v
             ELSE RunMethods(parsing_methods, i + 1, raw_result, required_keys_set, h)

\* the three try blocks of utils.parse_raw_evaluation, given what json.loads
\* (j) and the two extraction functions (b, u) do on the text
UtilsBlocks(required_keys_set, j, b, u) ==
    IF j.st = "ok" /\ j.v.t # "dict"
    THEN [st |-> "raise", v |-> Str(X_AttributeError), tried |-> <<"json.loads">>]
    ELSE IF j.st = "ok" /\ required_keys_set \subseteq Keys(j.v)
    THEN [st |-> "ret", v |-> j.v, tried |-> <<"json.loads">>]
    ELSE IF b.st = "ret" /\ required_keys_set \subseteq Keys(b.v)
    THEN [st |-> "ret", v |-> b.v,
          tried |-> <<"json.loads", "extract_evaluation_from_json_blob">>]
    ELSE [st |-> "ret",
          v |-> IF u.st = "ret" /\ required_keys_set \subseteq Keys(u.v) THEN u.v ELSE None,
          tried |-> <<"json.loads", "extract_evaluation_from_json_blob",
                      "extract_evaluation_from_unstructured_text">>]

\* utils.parse_raw_evaluation(raw_result, required_keys): [st, v, tried], the
\* return value or the exception that leaves the function, and the parsers it
\* called
parse_raw_evaluation(raw_result, required_keys_set, h) ==
    UtilsBlocks(required_keys_set,
                json_loads(raw_result),
                extract_evaluation_from_json_blob(raw_result),
                extract_evaluation_from_unstructured_text(raw_result, h))

(***************************************************************************)
(* EvaluationResponse as a pydantic model: construction and serialization  *)
(***************************************************************************)
\* EvaluationResponse(**d): the set of fields whose validation fails; "extra"
\* stands for a key the model forbids (Config.extra = 'forbid').  d is a dict
\* with str keys.
ValidationErrors(d) ==
    LET r == DictGet(d.v, Str(S_reasoning), [t |-> "missing", v |-> <<>>])
        v == DictGet(d.v, Str(S_verdict), [t |-> "missing", v |-> <<>>])
        c == DictGet(d.v, Str(S_confidence), [t |-> "missing", v |-> <<>>])
    IN  (IF ~IsStr(r) \/ r.v = <<>> \/ Strip(r.v) = <<>> THEN {"reasoning"} ELSE {}) \cup
        (IF IsStr(v) /\ v.v \in {S_Pass, S_Fail} THEN {} ELSE {"verdict"}) \cup
        (IF IsStr(c) /\ c.v \in {S_High, S_Medium, S_Low} THEN {} ELSE {"confidence"}) \cup
        (IF Keys(d) \subseteq DefaultRequiredKeys THEN {} ELSE {"extra"})

\* json.dumps of a str, as model_dump_json writes it
JsonString(chars) ==
    <<"\"">> \o
    Flatten([i \in 1..Len(chars) |->
                IF chars[i] \in {"\"", "\\"} THEN <<"\\", chars[i]>>
                ELSE IF chars[i] = "\n" THEN <<"\\", "n">>
                ELSE IF chars[i] = "\t" THEN <<"\\", "t">>
                ELSE <<chars[i]>>]) \o
    <<"\"">>

\* self.model_dump_json() of the record built from the valid dict d
model_dump_json(d) ==
    <<"{">> \o JsonString(S_reasoning) \o <<":">> \o
               JsonString(DictGet(d.v, Str(S_reasoning), None).v) \o <<",">> \o
               JsonString(S_verdict) \o <<":">> \o
               JsonString(DictGet(d.v, Str(S_verdict), None).v) \o <<",">> \o
               JsonString(S_confidence) \o <<":">> \o
               JsonString(DictGet(d.v, Str(S_confidence), None).v) \o <<"}">>

(***************************************************************************)
(* ScoreSchemaRVC                                                          *)
(***************************************************************************)
Num(chars) == [t |-> "num", v |-> chars]

\* the six fields of a default-constructed ScoreSchemaRVC, by field name
ScoreSchemaRVC ==
    [pass_high   |-> Num(<<"1", ".", "0">>),
     pass_medium |-> Num(<<"0", ".", "8", "5">>),
     pass_low    |-> Num(<<"0", ".", "6">>),
     fail_high   |-> Num(<<"0", ".", "0">>),
     fail_medium |-> Num(<<"0", ".", "1", "5">>),
     fail_low    |-> Num(<<"0", ".", "4">>)]

\* from_string with the lookup made on the value as given: cls(value)
from_string_as_given(members, value) ==
    IF ~IsStr(value) THEN Raise(X_AttributeError)
    ELSE IF value.v \in members THEN Return(value)
    ELSE Raise(X_ValueError)

\* Verdict.from_string / ConfidenceLevel.from_string: cls(value.lower()), the
\* member's value or the exception
from_string(members, value) ==
    IF ~IsStr(value) THEN Raise(X_AttributeError)
    ELSE IF Lower(value.v) \in members THEN Return(Str(Lower(value.v)))
    ELSE Raise(X_ValueError)

Verdict == {Lower(S_Pass), Lower(S_Fail)}

ConfidenceLevel == {Lower(S_High), Lower(S_Medium), Lower(S_Low)}

\* getattr(self, f"{verdict.value}_{confidence.value}")
ScoreField(verdict, confidence) ==
    CASE verdict = Lower(S_Pass) /\ confidence = Lower(S_High)   -> ScoreSchemaRVC.pass_high
      [] verdict = Lower(S_Pass) /\ confidence = Lower(S_Medium) -> ScoreSchemaRVC.pass_medium
      [] verdict = Lower(S_Pass) /\ confidence = Lower(S_Low)    -> ScoreSchemaRVC.pass_low
      [] verdict = Lower(S_Fail) /\ confidence = Lower(S_High)   -> ScoreSchemaRVC.fail_high
      [] verdict = Lower(S_Fail) /\ confidence = Lower(S_Medium) -> ScoreSchemaRVC.fail_medium
      [] verdict = Lower(S_Fail) /\ confidence = Lower(S_Low)    -> ScoreSchemaRVC.fail_low

\* ScoreSchemaRVC().get_score(model_output): the score or the exception
get_score(model_output) ==
    LET hasv == KeyIndex(model_output.v, Str(S_verdict)) # 0
        hasc == KeyIndex(model_output.v, Str(S_confidence)) # 0
        verdict == from_string(Verdict, DictGet(model_output.v, Str(S_verdict), None))
        confidence == from_string(ConfidenceLevel,
                                  DictGet(model_output.v, Str(S_confidence), None))
    IN  IF model_output.t # "dict" THEN Raise(X_TypeError)
        ELSE IF ~hasv THEN Raise(X_KeyError)
        ELSE IF verdict.st = "raise" THEN verdict
        ELSE IF ~hasc THEN Raise(X_KeyError)
        ELSE IF confidence.st = "raise" THEN confidence
        ELSE Return(ScoreField(verdict.v.v, confidence.v.v))

(***************************************************************************)
(* The raw texts a judge model may produce                                 *)
(***************************************************************************)
\* field values: reasoning, verdict and confidence as a judge may write them
Words ==
    [ok |->   \* ok
         <<"o","k">>,
     empty |->   \* (the empty string)
         <<>>,
     blank |->   \*
         <<" ">>,
     quoted |->   \* say "hi"
         <<"s","a","y"," ","\"","h","i","\"">>,
     Pass |->   \* Pass
         <<"P","a","s","s">>,
     FAIL |->   \* FAIL
         <<"F","A","I","L">>,
     pass |->   \* pass
         <<"p","a","s","s">>,
     maybe |->   \* maybe
         <<"m","a","y","b","e">>,
     both |->   \* fail or pass
         <<"f","a","i","l"," ","o","r"," ","p","a","s","s">>,
     High |->   \* High
         <<"H","i","g","h">>,
     medium |->   \* medium
         <<"m","e","d","i","u","m">>,
     mixed |->   \* high, not low
         <<"h","i","g","h",","," ","n","o","t"," ","l","o","w">>,
     sure |->   \* sure
         <<"s","u","r","e">>]

\* prose around an embedded object
Prose ==
    [here |->   \* Here is my answer:
         <<"H","e","r","e"," ","i","s"," ","m","y"," ","a","n","s","w","e","r",":"," ">>,
     thanks |->   \*  thanks
         <<" ","t","h","a","n","k","s">>]

\* the labels of the three sections
Labels ==
    [Reasoning |->   \* Reasoning:
         <<"R","e","a","s","o","n","i","n","g",":">>,
     Verdict |->   \* Verdict:
         <<"V","e","r","d","i","c","t",":">>,
     Confidence |->   \* Confidence:
         <<"C","o","n","f","i","d","e","n","c","e",":">>]

\* reasoning sections
ReasoningSections ==
    [matches |->   \*  it matches.
         <<" ","i","t"," ","m","a","t","c","h","e","s","."," ">>,
     bullet |->   \* \n- "ok"\n
         <<"\n","-"," ","\"","o","k","\"","\n">>,
     colon |->   \*  : fine
         <<" ",":"," ","f","i","n","e"," ">>,
     onlybullet |->   \*  1.
         <<" ","1","."," ">>,
     space |->   \*
         <<" ">>]

\* verdict sections
VerdictSections ==
    [Pass |->   \*  Pass.
         <<" ","P","a","s","s","."," ">>,
     both |->   \*  pass or fail
         <<" ","p","a","s","s"," ","o","r"," ","f","a","i","l"," ">>,
     unsure |->   \*  unsure
         <<" ","u","n","s","u","r","e"," ">>,
     bullet |->   \* \n(bullet) FAIL\n
         <<"\n","bullet"," ","F","A","I","L","\n">>,
     space |->   \*
         <<" ">>]

\* confidence sections
ConfidenceSections ==
    [High |->   \*  High.
         <<" ","H","i","g","h",".">>,
     both |->   \*  low or high
         <<" ","l","o","w"," ","o","r"," ","h","i","g","h">>,
     none |->   \*  none
         <<" ","n","o","n","e">>,
     star |->   \* \n* Medium
         <<"\n","*"," ","M","e","d","i","u","m">>,
     nothing |->   \* (the empty string)
         <<>>]

\* texts without the three fields
Texts ==
    [empty |->   \* (the empty string)
         <<>>,
     prose |->   \* I cannot decide.
         <<"I"," ","c","a","n","n","o","t"," ","d","e","c","i","d","e",".">>,
     number |->   \* 5
         <<"5">>,
     zero |->   \* 0
         <<"0">>,
     list |->   \* [1]
         <<"[","1","]">>,
     emptylist |->   \* []
         <<"[","]">>,
     null |->   \* null
         <<"n","u","l","l">>,
     true |->   \* true
         <<"t","r","u","e">>,
     string |->   \* "abc"
         <<"\"","a","b","c","\"">>,
     emptyobject |->   \* {}
         <<"{","}">>,
     braces_in_prose |->   \* I think {} maybe
         <<"I"," ","t","h","i","n","k"," ","{","}"," ","m","a","y","b","e">>,
     set |->   \* {'pass', 'high'}
         <<"{","'","p","a","s","s","'",","," ","'","h","i","g","h","'","}">>,
     intkey |->   \* {1: 'pass'}
         <<"{","1",":"," ","'","p","a","s","s","'","}">>,
     listkey |->   \* {[1]: 'pass'}
         <<"{","[","1","]",":"," ","'","p","a","s","s","'","}">>,
     unclosed |->   \* {"reasoning": "a } b"}
         <<"{","\"","r","e","a","s","o","n","i","n","g","\"",":"," ","\"","a"," ","}"," ", "b","\"","}">>]

\* the literal of a str in quote q ("" writes the bare word)
Lit(q, chars) ==
    IF q = "" THEN chars
    ELSE <<q>> \o Flatten([i \in 1..Len(chars) |->
                             IF chars[i] \in {q, "\\"} THEN <<"\\", chars[i]>>
                             ELSE <<chars[i]>>]) \o <<q>>

\* how each style writes the null value
NullWord(style) == IF style = "json" THEN <<"n","u","l","l">> ELSE <<"N","o","n","e">>

\* the quote around a key and around a value, per style
KeyQuote(style) == CASE style = "json" -> "\"" [] style = "python" -> "'" [] OTHER -> ""

ValueQuote(style) == IF style = "json" THEN "\"" ELSE "'"

RECURSIVE Join(_, _)
\* sep.join(parts)
Join(parts, sep) ==
    IF Len(parts) <= 1 THEN Flatten(parts)
    ELSE Head(parts) \o sep \o Join(Tail(parts), sep)

\* {key: value, ...} from <<key, value text>> pairs
ObjectText(style, fields) ==
    <<"{">> \o
    Join([i \in 1..Len(fields) |->
            Lit(KeyQuote(style), fields[i][1]) \o <<":", " ">> \o fields[i][2]], <<",", " ">>) \o
    <<"}">>

Styles == {"json", "python", "bare"}

\* what the judge may write as the value of each field
ReasoningTexts(style) ==
    {Lit(ValueQuote(style), x) : x \in {Words.ok, Words.empty, Words.blank, Words.quoted}}
        \cup {NullWord(style), Texts.number}

VerdictTexts(style) ==
    {Lit(ValueQuote(style), x) : x \in {Words.Pass, Words.FAIL, Words.maybe, Words.both}}
        \cup {NullWord(style), <<"[">> \o Lit(ValueQuote(style), Words.pass) \o <<"]">>}

ConfidenceTexts(style) ==
    {Lit(ValueQuote(style), x) : x \in {Words.High, Words.medium, Words.mixed, Words.sure}}
        \cup {NullWord(style)}

\* <<reasoning, verdict, confidence>> value texts: a well-formed base, each
\* field varied alone, and verdict and confidence out of range together
FieldTexts(style) ==
    LET ok == Lit(ValueQuote(style), Words.ok)
        pass == Lit(ValueQuote(style), Words.Pass)
        high == Lit(ValueQuote(style), Words.High)
    IN  {<<r, pass, high>> : r \in ReasoningTexts(style)}
        \cup {<<ok, v, high>> : v \in VerdictTexts(style)}
        \cup {<<ok, pass, c>> : c \in ConfidenceTexts(style)}
        \cup {<<ok, Lit(ValueQuote(style), Words.maybe), Lit(ValueQuote(style), Words.sure)>>,
              <<ok, NullWord(style), NullWord(style)>>}

ThreeFields(keys, f) == <<<<keys[1], f[1]>>, <<keys[2], f[2]>>, <<keys[3], f[3]>>>>

LowerKeyNames == <<S_reasoning, S_verdict, S_confidence>>

CapitalKeyNames == <<Capitalize(S_reasoning), Capitalize(S_verdict), Capitalize(S_confidence)>>

\* the objects: all three keys; capitalized keys; one key missing; an extra key
ObjectTexts ==
    UNION {
        {ObjectText(st, ThreeFields(LowerKeyNames, f)) : f \in FieldTexts(st)}
        \cup {ObjectText(st, ThreeFields(CapitalKeyNames,
                 <<Lit(ValueQuote(st), Words.ok), Lit(ValueQuote(st), Words.FAIL),
                   Lit(ValueQuote(st), Words.medium)>>))}
        \cup {ObjectText(st, SelectSeq(ThreeFields(LowerKeyNames,
                 <<Lit(ValueQuote(st), Words.ok), Lit(ValueQuote(st), Words.Pass),
                   Lit(ValueQuote(st), Words.High)>>), LAMBDA kv : kv[1] # k))
              : k \in {S_reasoning, S_verdict, S_confidence}}
        \cup {ObjectText(st, ThreeFields(LowerKeyNames,
                 <<Lit(ValueQuote(st), Words.ok), Lit(ValueQuote(st), Words.Pass),
                   Lit(ValueQuote(st), Words.High)>>) \o <<<<<<"s","c","o","r","e">>, Texts.number>>>>)}
        : st \in Styles}

\* at most this many prose phrases on each side of an object
MaxPad == 1

RECURSIVE Repeat(_, _)
Repeat(chars, n) == IF n = 0 THEN <<>> ELSE chars \o Repeat(chars, n - 1)

\* the well-formed object of a style, and one with both values out of range
BaseObject(style) ==
    ObjectText(style, ThreeFields(LowerKeyNames,
        <<Lit(ValueQuote(style), Words.ok), Lit(ValueQuote(style), Words.Pass),
          Lit(ValueQuote(style), Words.High)>>))

OutOfRangeObject(style) ==
    ObjectText(style, ThreeFields(LowerKeyNames,
        <<Lit(ValueQuote(style), Words.ok), Lit(ValueQuote(style), Words.maybe),
          Lit(ValueQuote(style), Words.sure)>>))

\* an object alone, inside prose, inside a list, and as a member of an object
EmbeddedTexts ==
    {Repeat(Prose.here, k) \o o \o Repeat(Prose.thanks, k) : o \in ObjectTexts, k \in 0..MaxPad}
    \cup {<<"[">> \o o \o <<"]">> : o \in {BaseObject("json"), OutOfRangeObject("json")}}
    \cup {ObjectText("json", <<<<<<"r","e","s","u","l","t">>, o>>>>)
          : o \in {BaseObject("json"), OutOfRangeObject("json")}}

\* labeled sections: the three labels in order with each section varied alone,
\* ambiguous verdict and confidence together, a label missing, labels out of
\* order, labels in upper case, and the sections inside a JSON string
LabeledTexts ==
    LET text(r, v, c) == Labels.Reasoning \o r \o Labels.Verdict \o v \o Labels.Confidence \o c
    IN  {text(r, VerdictSections.Pass, ConfidenceSections.High) : r \in {ReasoningSections.matches, ReasoningSections.bullet, ReasoningSections.colon, ReasoningSections.onlybullet, ReasoningSections.space}}
        \cup {text(ReasoningSections.matches, v, ConfidenceSections.High) : v \in {VerdictSections.Pass, VerdictSections.both, VerdictSections.unsure, VerdictSections.bullet, VerdictSections.space}}
        \cup {text(ReasoningSections.matches, VerdictSections.Pass, c) : c \in {ConfidenceSections.High, ConfidenceSections.both, ConfidenceSections.none, ConfidenceSections.star, ConfidenceSections.nothing}}
        \cup {text(ReasoningSections.matches, VerdictSections.both, ConfidenceSections.both),
              ReasoningSections.matches \o Labels.Verdict \o VerdictSections.Pass \o Labels.Confidence \o ConfidenceSections.High,
              Labels.Reasoning \o ReasoningSections.matches \o VerdictSections.Pass \o Labels.Confidence \o ConfidenceSections.High,
              Labels.Reasoning \o ReasoningSections.matches \o Labels.Verdict \o VerdictSections.Pass \o ConfidenceSections.High,
              Labels.Verdict \o VerdictSections.Pass \o Labels.Confidence \o ConfidenceSections.High \o <<" ">> \o Labels.Reasoning \o ReasoningSections.matches,
              Labels.Confidence \o ConfidenceSections.High \o <<" ">> \o Labels.Reasoning \o ReasoningSections.matches \o Labels.Verdict \o VerdictSections.Pass,
              [i \in 1..Len(text(ReasoningSections.matches, VerdictSections.Pass, ConfidenceSections.High)) |->
                   UpperChar(text(ReasoningSections.matches, VerdictSections.Pass, ConfidenceSections.High)[i])],
              Lit("\"", text(ReasoningSections.matches, VerdictSections.Pass, ConfidenceSections.High)),
              Prose.here \o text(ReasoningSections.matches, VerdictSections.Pass, ConfidenceSections.High)}

OtherTexts ==
    {Texts.empty, Texts.prose, Texts.number, Texts.zero, Texts.list, Texts.emptylist, Texts.null, Texts.true, Texts.string,
     Texts.emptyobject, Texts.braces_in_prose, Texts.set, Texts.intkey, Texts.listkey, Texts.unclosed}

RawInputs == EmbeddedTexts \cup LabeledTexts \cup OtherTexts

\* required_keys as callers pass it: the default, and verdict and confidence only
RequiredKeysChoices == {DefaultRequiredKeys, {Str(S_verdict), Str(S_confidence)}}

\* a word in lower case, upper case, capitalized and mixed case
CaseVariants(w) ==
    {Lower(w), Capitalize(w), [i \in 1..Len(w) |-> UpperChar(w[i])],
     [i \in 1..Len(w) |-> IF i % 2 = 0 THEN UpperChar(w[i]) ELSE LowerChar(w[i])]}

\* records handed to get_score directly: any letter case of the closed sets,
\* and values outside them (another str, None, a number, the key missing)
DirectVerdicts ==
    {Str(w) : w \in CaseVariants(S_Pass) \cup CaseVariants(S_Fail) \cup {Words.maybe, Words.empty, Words.both}}
        \cup {None, Num(Texts.number)}

DirectConfidences ==
    {Str(w) : w \in CaseVariants(S_High) \cup CaseVariants(S_Medium) \cup CaseVariants(S_Low)
                    \cup {Words.sure, Words.empty}}
        \cup {None, Num(Texts.number)}

DirectRecords ==
    {[t |-> "dict", v |-> << <<Str(<<"r","e","a","s","o","n">>), Str(Words.ok)>>,
                            <<Str(S_verdict), v>>, <<Str(S_confidence), c>> >>]
        : v \in DirectVerdicts, c \in DirectConfidences}
    \cup {[t |-> "dict", v |-> << <<Str(S_verdict), Str(S_Pass)>> >>],
          [t |-> "dict", v |-> << <<Str(S_confidence), Str(S_High)>> >>]}

(***************************************************************************)
(* State                                                                   *)
(***************************************************************************)
VARIABLES
    registry,   \* EvaluationResponse._parsing_methods, the class-level list
    hashOrder,  \* the process's iteration order of the two token sets; not
                \* known (UnknownOrder) until a parser first iterates over one
    calls,      \* per caller: the parse_raw_evaluation call in progress, its
                \* result, and what main does with it
    direct      \* a get_score call on a record built by hand: its argument
                \* and outcome

vars == <<registry, hashOrder, calls, direct>>

Callers == {1, 2}

\* the orders in which a process may iterate {'pass', 'fail'} and
\* {'low', 'medium', 'high'}
HashOrders ==
    LET V == {Lower(S_Pass), Lower(S_Fail)}
        C == {Lower(S_Low), Lower(S_Medium), Lower(S_High)}
    IN  {[v |-> <<a, b>>, c |-> <<x, y, z>>] :
            a \in V, b \in V, x \in C, y \in C, z \in C} \
        {h \in [v : V \X V, c : C \X C \X C] :
            h.v[1] = h.v[2] \/ h.c[1] = h.c[2] \/ h.c[1] = h.c[3] \/ h.c[2] = h.c[3]}

UnknownOrder == [v |-> <<>>, c |-> <<>>]

IdleCall ==
    [pc |-> "idle", api |-> "", raw_result |-> <<>>, required_keys_set |-> {},
     parsing_methods |-> <<>>, i |-> 0, tried |-> <<>>,
     result |-> Return(None), score |-> Return(None), round |-> 0, first |-> None]

NoDirect == [model_output |-> None, outcome |-> Return(None)]

Init ==
    /\ registry = <<>>
    /\ hashOrder = UnknownOrder
    /\ calls = [c \in Callers |-> IdleCall]
    /\ direct = NoDirect

\* whether the labeled-section parsers iterate over a token set on this text:
\* the verdict or the confidence section is found and not empty
IteratesTokenSets(input_string) ==
    LET low == Lower(input_string)
        verdict == extract_section(Colon(S_verdict), Colon(S_confidence), low)
        confidence == extract_section(Colon(S_confidence), <<>>, low)
    IN  (verdict.found /\ verdict.v # <<>>) \/ (confidence.found /\ confidence.v # <<>>)

\* the orders the process may turn out to have
PossibleOrders == IF hashOrder = UnknownOrder THEN HashOrders ELSE {hashOrder}

\* at most this many times is a record serialized and fed back
MaxRoundTrips == 1

\* at most this many methods are registered
MaxRegistered == 2

(***************************************************************************)
(* Actions                                                                 *)
(***************************************************************************)
\* EvaluationResponse.parse_raw_evaluation(raw_result, required_keys) is
\* called: up to the start of the loop
Begin(c, raw_result, required_keys_set) ==
    /\ calls[c].pc = "idle"
    /\ calls' = [calls EXCEPT ![c] =
                    [IdleCall EXCEPT !.pc = "loop", !.api = "class",
                                     !.raw_result = raw_result,
                                     !.required_keys_set = required_keys_set,
                                     !.parsing_methods = ParsingMethods(registry),
                                     !.i = 1]]
    /\ UNCHANGED <<registry, hashOrder, direct>>

\* the methods the loop of caller c iterates over
LoopMethods(c) == calls[c].parsing_methods

\* the state after the iteration for method ended as t; last: no method is left
Iterated(c, method, t, last) ==
    calls' = [calls EXCEPT ![c] =
                [@ EXCEPT !.tried = Append(@, [method |-> method, raised |-> t.raised]),
                          !.i = IF t.returns THEN @ ELSE @ + 1,
                          !.pc = IF t.returns \/ last THEN "returned" ELSE "loop",
                          !.result = Return(t.v)]]

\* one iteration of the loop, and the return None after the last one
Step(c) ==
    LET k == calls[c]
        method == LoopMethods(c)[k.i]
        iterates == method = "_extract_from_unstructured_text"
                        /\ IteratesTokenSets(k.raw_result)
    IN  /\ k.pc = "loop"
        /\ k.i <= Len(LoopMethods(c))
        /\ \E h \in (IF iterates THEN PossibleOrders ELSE {hashOrder}) :
             /\ Iterated(c, method,
                         TryMethod(method, k.raw_result, k.required_keys_set, h),
                         k.i = Len(LoopMethods(c)))
             /\ hashOrder' = h
        /\ UNCHANGED <<registry, direct>>

\* the state after utils.parse_raw_evaluation ended as r
UtilsReturned(c, raw_result, required_keys_set, r) ==
    calls' = [calls EXCEPT ![c] =
                [IdleCall EXCEPT !.pc = "returned", !.api = "utils",
                                 !.raw_result = raw_result,
                                 !.required_keys_set = required_keys_set,
                                 !.tried = [n \in 1..Len(r.tried) |->
                                              [method |-> r.tried[n], raised |-> FALSE]],
                                 !.result = [st |-> r.st, v |-> r.v]]]

\* utils.parse_raw_evaluation(raw_result, required_keys), from call to return
UtilsParse(c, raw_result, required_keys_set) ==
    /\ calls[c].pc = "idle"
    /\ LET iterates ==
               IteratesTokenSets(raw_result)
                   /\ Len(parse_raw_evaluation(raw_result, required_keys_set,
                                               CHOOSE h \in HashOrders : TRUE).tried) = 3
       IN  \E h \in (IF iterates THEN PossibleOrders ELSE {hashOrder}) :
              /\ UtilsReturned(c, raw_result, required_keys_set,
                               parse_raw_evaluation(raw_result, required_keys_set, h))
              /\ hashOrder' = h
    /\ UNCHANGED <<registry, direct>>

\* main: score_schema.get_score(result) on what parse_raw_evaluation returned
Score(c) ==
    /\ calls[c].pc = "returned"
    /\ calls[c].api = "class"
    /\ calls' = [calls EXCEPT ![c].pc = "scored",
                              ![c].score = get_score(calls[c].result.v)]
    /\ UNCHANGED <<registry, hashOrder, direct>>

\* the result is a valid record: EvaluationResponse(**result).model_dump_json()
\* is fed back into parse_raw_evaluation
Feedback(c) ==
    LET k == calls[c]
    IN  /\ k.pc = "scored"
        /\ k.round < MaxRoundTrips
        /\ k.result.v.t = "dict"
        /\ ValidationErrors(k.result.v) = {}
        /\ calls' = [calls EXCEPT ![c] =
                        [IdleCall EXCEPT !.pc = "loop", !.api = "class",
                                         !.raw_result = model_dump_json(k.result.v),
                                         !.required_keys_set = k.required_keys_set,
                                         !.parsing_methods = ParsingMethods(registry),
                                         !.i = 1,
                                         !.round = k.round + 1,
                                         !.first = k.result.v]]
        /\ UNCHANGED <<registry, hashOrder, direct>>

\* EvaluationResponse.register_parsing_method(method)
Register(method) ==
    /\ Len(registry) < MaxRegistered
    /\ registry' = Append(registry, method)
    /\ UNCHANGED <<hashOrder, calls, direct>>

\* ScoreSchemaRVC().get_score(model_output) on a record built by hand
ScoreDirect(model_output) ==
    /\ direct' = [model_output |-> model_output, outcome |-> get_score(model_output)]
    /\ UNCHANGED <<registry, hashOrder, calls>>

(***************************************************************************)
(* Specifications                                                          *)
(***************************************************************************)
\* one caller, as in main: a text is parsed by either pipeline, the result is
\* scored, and a valid record is serialized and parsed again
Next ==
    \/ \E raw_result \in RawInputs, required_keys_set \in RequiredKeysChoices :
           Begin(1, raw_result, required_keys_set)
    \/ \E raw_result \in RawInputs, required_keys_set \in RequiredKeysChoices :
           UtilsParse(1, raw_result, required_keys_set)
    \/ Step(1)
    \/ Score(1)
    \/ Feedback(1)

Spec == Init /\ [][Next]_vars

\* get_score on records built by hand
NextScore == \E model_output \in DirectRecords : ScoreDirect(model_output)

SpecScore == Init /\ [][NextScore]_vars

\* the texts of the callers that share the class-level list
SharedInputs == {Texts.prose, Texts.number, BaseObject("json")}

\* two callers parse and score while methods are registered on the class
NextReg ==
    \/ \E c \in Callers, raw_result \in SharedInputs :
           Begin(c, raw_result, DefaultRequiredKeys)
    \/ \E c \in Callers : Step(c)
    \/ \E c \in Callers : Score(c)
    \/ \E method \in RegisteredKinds : Register(method)

SpecReg == Init /\ [][NextReg]_vars

(***************************************************************************)
(* Properties                                                              *)
(***************************************************************************)
\* the call of caller c has returned or raised
Ended(c) == calls[c].pc \in {"returned", "scored"}

\* d[key] of a dict value, None when the key is absent
Field(d, key) == IF d.t = "dict" THEN DictGet(d.v, Str(key), None) ELSE None

\* C1: for each of the six (verdict, confidence) pairs of the closed sets, in
\* any letter case, get_score on a default-constructed table returns exactly
\* the table value: pass/high 1.0, pass/medium 0.85, pass/low 0.6, fail/high
\* 0.0, fail/medium 0.15, fail/low 0.4, and no other value.
C1_TableValue ==
    LET v == Field(direct.model_output, S_verdict)
        c == Field(direct.model_output, S_confidence)
        pass == <<"p", "a", "s", "s">>
        fail == <<"f", "a", "i", "l">>
        high == <<"h", "i", "g", "h">>
        medium == <<"m", "e", "d", "i", "u", "m">>
        low == <<"l", "o", "w">>
        value(x, y) ==
            CASE x = pass /\ y = high   -> <<"1", ".", "0">>
              [] x = pass /\ y = medium -> <<"0", ".", "8", "5">>
              [] x = pass /\ y = low    -> <<"0", ".", "6">>
              [] x = fail /\ y = high   -> <<"0", ".", "0">>
              [] x = fail /\ y = medium -> <<"0", ".", "1", "5">>
              [] x = fail /\ y = low    -> <<"0", ".", "4">>
    IN  (IsStr(v) /\ IsStr(c) /\ Lower(v.v) \in {pass, fail}
                 /\ Lower(c.v) \in {high, medium, low})
            => direct.outcome = Return(Num(value(Lower(v.v), Lower(c.v))))

\* get_score was called with verdict "fAiL" and confidence "MEDIUM" and
\* returned 0.15
C1_MixedCaseScored ==
    /\ Field(direct.model_output, S_verdict) = Str(<<"f", "A", "i", "L">>)
    /\ Field(direct.model_output, S_confidence) = Str(<<"M", "E", "D", "I", "U", "M">>)
    /\ direct.outcome = Return(Num(<<"0", ".", "1", "5">>))

\* the iteration order of the token sets in this process; any order while no
\* parser has iterated over one
ProcessOrder == IF hashOrder = UnknownOrder THEN CHOOSE h \in HashOrders : TRUE ELSE hashOrder

\* the strategies of the pipeline that call k runs, in its order
Strategies(k) ==
    IF k.api = "class" THEN k.parsing_methods
    ELSE <<"json.loads", "extract_evaluation_from_json_blob",
           "extract_evaluation_from_unstructured_text">>

\* what strategy n of call k does on the call's text, taken alone
StrategyOutput(k, n) ==
    IF k.api = "class" THEN CallMethod(k.parsing_methods[n], k.raw_result, ProcessOrder)
    ELSE CASE n = 1 -> _parse_json(k.raw_result)
           [] n = 2 -> extract_evaluation_from_json_blob(k.raw_result)
           [] n = 3 -> extract_evaluation_from_unstructured_text(k.raw_result, ProcessOrder)

\* a non-empty result containing all required keys
Complete(out, required_keys_set) ==
    /\ out.st = "ret"
    /\ out.v.t = "dict"
    /\ out.v.v # <<>>
    /\ required_keys_set \subseteq Keys(out.v)

\* the strategies of call k whose output, taken alone, is complete
Winners(k) ==
    {n \in 1..Len(Strategies(k)) : Complete(StrategyOutput(k, n), k.required_keys_set)}

\* C2: for every raw text, parse_raw_evaluation returns the unmodified output
\* of the earliest strategy, in the order direct structured parse, embedded
\* object, labeled sections, that produced a non-empty result with all
\* required keys, and no later strategy is invoked once one has won.
C2_EarliestStrategyWins ==
    \A c \in Callers :
        (Ended(c) /\ Winners(calls[c]) # {}) =>
            LET k == calls[c]
                w == CHOOSE n \in Winners(k) : \A m \in Winners(k) : n <= m
            IN  /\ k.result = Return(StrategyOutput(k, w).v)
                /\ [n \in 1..Len(k.tried) |-> k.tried[n].method] = SubSeq(Strategies(k), 1, w)

\* C3: for every raw input, an exception raised inside one strategy is treated
\* as that strategy not matching: the next strategy is still attempted, and
\* parse_raw_evaluation never propagates an exception to its caller.
C3_NoExceptionPropagates ==
    \A c \in Callers :
        Ended(c) =>
            /\ calls[c].result.st = "ret"
            /\ \A n \in 1..Len(calls[c].tried) :
                   calls[c].tried[n].raised =>
                       (n < Len(calls[c].tried) \/ n = Len(Strategies(calls[c])))

\* the text is empty, or it is no structured object with the required keys,
\* holds no flat brace-delimited object and lacks one of the three labels
Unrecognizable(raw_result, required_keys_set) ==
    \/ raw_result = <<>>
    \/ /\ ~Complete(_parse_json(raw_result), required_keys_set)
       /\ SearchFlatBraces(raw_result).a = 0
       /\ \E label \in {S_reasoning, S_verdict, S_confidence} :
              ~Contains(Lower(raw_result), Colon(label))

\* C4: EvaluationResponse.parse_raw_evaluation on the empty string, and on any
\* text that is no structured object with the required keys, contains no flat
\* brace-delimited object and lacks a label among reasoning:, verdict:,
\* confidence:, returns no result (None) and raises nothing.
C4_NoStructureNoResult ==
    \A c \in Callers :
        (Ended(c) /\ calls[c].api = "class"
                  /\ Unrecognizable(calls[c].raw_result, calls[c].required_keys_set))
            => calls[c].result = Return(None)

\* the class pipeline ran all three methods on "I cannot decide." and
\* returned None
C4_ProseRejected ==
    \E c \in Callers :
        /\ Ended(c)
        /\ calls[c].api = "class"
        /\ calls[c].raw_result = Texts.prose
        /\ Len(calls[c].tried) = 3
        /\ calls[c].result = Return(None)

\* C5: whenever a strategy yields a candidate that has all three required
\* keys but whose reasoning is empty or whitespace-only, extraction does not
\* return that candidate as a successful result.
C5_BlankReasoningRejected ==
    \A c \in Callers :
        (Ended(c) /\ calls[c].result.st = "ret" /\ calls[c].result.v.t = "dict"
                  /\ DefaultRequiredKeys \subseteq Keys(calls[c].result.v))
            => ~(/\ IsStr(Field(calls[c].result.v, S_reasoning))
                 /\ Strip(Field(calls[c].result.v, S_reasoning).v) = <<>>)

\* C6: every result that extraction returns as a success has verdict exactly
\* Pass or Fail and confidence exactly High, Medium or Low.
C6_CanonicalResult ==
    \A c \in Callers :
        (Ended(c) /\ calls[c].result.st = "ret" /\ calls[c].result.v.t = "dict") =>
            /\ IsStr(Field(calls[c].result.v, S_verdict))
            /\ Field(calls[c].result.v, S_verdict).v \in {S_Pass, S_Fail}
            /\ IsStr(Field(calls[c].result.v, S_confidence))
            /\ Field(calls[c].result.v, S_confidence).v \in {S_High, S_Medium, S_Low}

\* C7: for every raw text on which parse_raw_evaluation returns a result,
\* get_score on that result returns one of the six table constants and does
\* not fail.
C7_ResultAlwaysScores ==
    \A c \in Callers :
        (calls[c].pc = "scored" /\ calls[c].result.v.t # "null") =>
            /\ calls[c].score.st = "ret"
            /\ calls[c].score.v.v \in {<<"1", ".", "0">>, <<"0", ".", "8", "5">>,
                                       <<"0", ".", "6">>, <<"0", ".", "0">>,
                                       <<"0", ".", "1", "5">>, <<"0", ".", "4">>}

\* a record with both keys whose verdict or confidence is another string or
\* None, outside the closed sets
OutsideClosedSets(model_output) ==
    /\ model_output.t = "dict"
    /\ {Str(S_verdict), Str(S_confidence)} \subseteq Keys(model_output)
    /\ Field(model_output, S_verdict).t \in {"str", "null"}
    /\ Field(model_output, S_confidence).t \in {"str", "null"}
    /\ \/ ~IsStr(Field(model_output, S_verdict))
       \/ ~IsStr(Field(model_output, S_confidence))
       \/ Lower(Field(model_output, S_verdict).v) \notin Verdict
       \/ Lower(Field(model_output, S_confidence).v) \notin ConfidenceLevel

\* C8: get_score on a record whose verdict or confidence is outside the closed
\* sets returns no score and ends in one and the same failure for every such
\* record, whatever the shape of the bad value.
C8_SingleFailure ==
    [][OutsideClosedSets(direct'.model_output) =>
          /\ direct'.outcome.st = "raise"
          /\ OutsideClosedSets(direct.model_output) => direct'.outcome = direct.outcome]_vars

\* C9: for every text on which extraction succeeds, the resulting record can
\* be serialized, and feeding the serialized form back succeeds through
\* _parse_json and yields a record identical in all three fields.
C9_RoundTrip ==
    \A c \in Callers :
        (Ended(c) /\ calls[c].api = "class") =>
            /\ (calls[c].round = 0 /\ calls[c].result.v.t = "dict")
                   => ValidationErrors(calls[c].result.v) = {}
            /\ calls[c].round > 0 =>
                   /\ calls[c].tried = <<[method |-> "_parse_json", raised |-> FALSE]>>
                   /\ calls[c].result.st = "ret"
                   /\ \A key \in {S_reasoning, S_verdict, S_confidence} :
                          Field(calls[c].result.v, key) = Field(calls[c].first, key)

\* callers c and d have both ended a call on the same text and required keys
SameCall(c, d) ==
    /\ Ended(c) /\ Ended(d)
    /\ calls[c].api = "class" /\ calls[d].api = "class"
    /\ calls[c].raw_result = calls[d].raw_result
    /\ calls[c].required_keys_set = calls[d].required_keys_set

\* C10: under every interleaving of concurrent callers the result of an
\* extraction call depends only on its own raw text and required fields: no
\* operation of another caller, register_parsing_method included, changes it.
C10_DependsOnlyOnInput ==
    \A c, d \in Callers : SameCall(c, d) => calls[c].result = calls[d].result

\* What the code does keep: the list is copied when the call starts, so the
\* result of a call is the one its own text, required keys and that copy
\* determine, whatever is registered while it runs.
SnapshotDecidesResult ==
    \A c \in Callers :
        (Ended(c) /\ calls[c].api = "class") =>
            calls[c].result = Return(RunMethods(calls[c].parsing_methods, 1,
                                                calls[c].raw_result,
                                                calls[c].required_keys_set, ProcessOrder))

\* the methods call k has attempted so far, in order
Attempted(k) == [n \in 1..Len(k.tried) |-> k.tried[n].method]

\* C11: after any sequence of register_parsing_method calls, the methods a
\* call attempts are the three built-ins followed by the registered methods
\* in registration order, a registered method is attempted only when all
\* three built-ins failed to match, and later registrations never remove,
\* replace or reorder the built-ins or earlier registrations.
C11_RegisteredRunLast ==
    \A c \in Callers :
        calls[c].api = "class" =>
            /\ Attempted(calls[c])
                   = SubSeq(BuiltinMethods \o registry, 1, Len(calls[c].tried))
            /\ Len(calls[c].tried) > Len(BuiltinMethods) =>
                   \A n \in 1..Len(BuiltinMethods) :
                       ~Complete(CallMethod(BuiltinMethods[n], calls[c].raw_result,
                                            ProcessOrder),
                                 calls[c].required_keys_set)

\* reg_none and then reg_a were registered; a call on "I cannot decide." ran
\* the three built-ins, then reg_none, then reg_a, and returned reg_a's result
C11_TwoRegisteredInOrder ==
    \E c \in Callers :
        /\ Ended(c)
        /\ registry = <<"reg_none", "reg_a">>
        /\ calls[c].raw_result = Texts.prose
        /\ Attempted(calls[c]) = BuiltinMethods \o <<"reg_none", "reg_a">>
        /\ calls[c].result = RegisteredResult("reg_a")

\* the first flat brace-delimited object of the text as a dict with its keys
\* lower-cased: [st, v], st = "ok" when there is one
NormalizedObject(raw_result) ==
    LET match == SearchFlatBraces(raw_result)
        result_dict == IF match.a = 0 THEN [st |-> "none", v |-> None]
                       ELSE literal_eval(SubSeq(raw_result, match.a, match.b))
    IN  IF result_dict.st = "ok" /\ result_dict.v.t = "dict"
        THEN LowerKeys(result_dict.v.v, 1, <<>>)
        ELSE [st |-> "none", v |-> <<>>]

\* the first token, in the order given, that occurs in the value whatever its
\* letter case; None when the value is None or holds no token
FirstOccurring(tokens, value) ==
    IF ~IsStr(value) THEN None
    ELSE IF Contains(Lower(value.v), Lower(tokens[1])) THEN Str(tokens[1])
    ELSE IF Contains(Lower(value.v), Lower(tokens[2])) THEN Str(tokens[2])
    ELSE IF Len(tokens) > 2 /\ Contains(Lower(value.v), Lower(tokens[3])) THEN Str(tokens[3])
    ELSE None

\* C12: in embedded-object extraction, after the keys are lower-cased, the
\* verdict is the first of Pass, Fail that occurs in the verdict value in any
\* letter case, the confidence the first of Low, Medium, High that occurs in
\* the confidence value, a field in which no token occurs is None, and the
\* reasoning is taken verbatim; stated for verdict and confidence values that
\* are a str, None or absent, and for both copies of the strategy.
C12_EmbeddedTokens ==
    \A c \in Callers :
        LET k == calls[c]
            normalized_dict == NormalizedObject(k.raw_result)
            verdict == DictGet(normalized_dict.v, Str(S_verdict), None)
            confidence == DictGet(normalized_dict.v, Str(S_confidence), None)
        IN  (Len(k.tried) >= 2 /\ normalized_dict.st = "ok"
                 /\ verdict.t \in {"str", "null"} /\ confidence.t \in {"str", "null"})
                => StrategyOutput(k, 2) =
                       Return([t |-> "dict",
                               v |-> << <<Str(S_reasoning),
                                          DictGet(normalized_dict.v, Str(S_reasoning), None)>>,
                                        <<Str(S_verdict),
                                          FirstOccurring(<<S_Pass, S_Fail>>, verdict)>>,
                                        <<Str(S_confidence),
                                          FirstOccurring(<<S_Low, S_Medium, S_High>>,
                                                         confidence)>> >>])

\* C13: labeled-section extraction reports a match only when reasoning,
\* verdict and confidence were all three recovered; when a label is missing,
\* a section is empty or holds none of its tokens, it reports no match (None
\* or an empty result) and never a partial result; for both copies.
C13_AllThreeOrNoMatch ==
    \A c \in Callers :
        (Len(calls[c].tried) >= 3 /\ StrategyOutput(calls[c], 3).st = "ret") =>
            \/ ~Truthy(StrategyOutput(calls[c], 3).v)
            \/ DefaultRequiredKeys \subseteq Keys(StrategyOutput(calls[c], 3).v)

\* a candidate whose verdict or confidence is not a value of the closed sets
InvalidField(d) ==
    \/ ~IsStr(Field(d, S_verdict))
    \/ ~IsStr(Field(d, S_confidence))
    \/ Field(d, S_verdict).v \notin {S_Pass, S_Fail}
    \/ Field(d, S_confidence).v \notin {S_High, S_Medium, S_Low}

\* the earliest strategy of call k whose output is complete
Earliest(k) == CHOOSE n \in Winners(k) : \A m \in Winners(k) : n <= m

\* C14: when a strategy produces a candidate that has all required keys but an
\* invalid field value, extraction stops at that candidate, no later strategy
\* is attempted, and the outcome is a failure, not that candidate as a result.
C14_InvalidCandidateFails ==
    \A c \in Callers :
        (Ended(c) /\ Winners(calls[c]) # {}
                  /\ InvalidField(StrategyOutput(calls[c], Earliest(calls[c])).v)) =>
            /\ Attempted(calls[c]) = SubSeq(Strategies(calls[c]), 1, Earliest(calls[c]))
            /\ calls[c].result.v.t # "dict"

\* two Python values are equal; dicts whatever the order of their keys
SameValue(x, y) ==
    /\ x.t = y.t
    /\ IF x.t = "dict"
       THEN /\ Keys(x) = Keys(y)
            /\ \A key \in Keys(x) :
                   /\ DictGet(x.v, key, None).t = DictGet(y.v, key, None).t
                   /\ DictGet(x.v, key, None) = DictGet(y.v, key, None)
       ELSE x = y

\* two calls end alike: both return equal values, or both raise
SameOutcome(a, b) ==
    /\ a.st = b.st
    /\ a.st = "ret" => SameValue(a.v, b.v)

\* C15: for every raw input the module-level parse_raw_evaluation and
\* EvaluationResponse.parse_raw_evaluation with an empty registry reach the
\* same outcome: the same dictionary, no result for both, and neither raises
\* where the other returns.
C15_PipelinesAgree ==
    \A c \in Callers :
        Ended(c) =>
            IF calls[c].api = "class"
            THEN calls[c].parsing_methods = BuiltinMethods =>
                     SameOutcome(calls[c].result,
                                 [st |-> parse_raw_evaluation(calls[c].raw_result,
                                             calls[c].required_keys_set, ProcessOrder).st,
                                  v |-> parse_raw_evaluation(calls[c].raw_result,
                                            calls[c].required_keys_set, ProcessOrder).v])
            ELSE SameOutcome(calls[c].result,
                             Return(RunMethods(BuiltinMethods, 1, calls[c].raw_result,
                                               calls[c].required_keys_set, ProcessOrder)))

\* the outcome of the pipeline of call k had the process iterated the token
\* sets in order h
OutcomeUnder(k, h) ==
    IF k.api = "class"
    THEN Return(RunMethods(k.parsing_methods, 1, k.raw_result, k.required_keys_set, h))
    ELSE [st |-> parse_raw_evaluation(k.raw_result, k.required_keys_set, h).st,
          v |-> parse_raw_evaluation(k.raw_result, k.required_keys_set, h).v]

\* C16: extraction is deterministic: the outcome of a call on a raw text and
\* a list of methods is the same under every iteration order of the token
\* sets {pass, fail} and {low, medium, high}, also when a section holds more
\* than one token.
C16_OrderIndependent ==
    \A c \in Callers :
        Ended(c) =>
            \A h \in HashOrders : SameOutcome(calls[c].result, OutcomeUnder(calls[c], h))

====
